---------------------------- MODULE Spec2Model ----------------------------
(***************************************************************************)
(* Jira adapter (src/core/adapters/jira.ts).                               *)
(*                                                                         *)
(* Representation.                                                         *)
(*   - A pathname is the sequence of its segments, each segment standing   *)
(*     for "/" followed by the segment text: "/jira/browse/K" is           *)
(*     <<"jira","browse","K">>, "/" is <<"">>, and a trailing slash is a   *)
(*     trailing empty segment.  The empty string is <<>>.                  *)
(*   - A text that need not start with "/" (the result of substr) is a     *)
(*     record [head, segs]: head is what precedes the first "/".           *)
(*   - An optional value (string | null | undefined) is a sequence of      *)
(*     length at most one: <<>> is undefined/null, <<v>> is the value v.   *)
(*   - The query string is the sequence of the values of its               *)
(*     selectedIssue parameters, in order of appearance.                   *)
(*   - A host is [labels, port]; url.host is labels joined by "." plus     *)
(*     ":port" when the port is not the scheme's default.                  *)
(***************************************************************************)
EXTENDS Integers, Sequences, FiniteSets, TLC

VARIABLES
    lastIndex,  \* pathSuffixes.lastIndex, the one mutable field of the module-level RegExp
    calls,      \* the scan invocations: one record per call
    u,          \* URL matcher harness: the URL under test
    phase,      \* URL matcher harness: "url" -> "prefix" -> "id"
    pfx,        \* URL matcher harness: result of getPathPrefix(u)
    arg,        \* URL matcher harness: the prefix argument given to getSelectedIssueId
    ident       \* URL matcher harness: result of getSelectedIssueId(u, arg)

vars == <<lastIndex, calls, u, phase, pfx, arg, ident>>

-----------------------------------------------------------------------------
(* Bounds *)

MaxPrefixLen == 3   \* segments of the path in front of the trailing shape
NumCalls == 2       \* concurrent scan invocations

-----------------------------------------------------------------------------
(* Strings *)

Undefined == <<>>
Some(v) == <<v>>
IsTruthy(opt) == opt # <<>> /\ opt[1] # ""

\* template-literal interpolation `${v}` of an optional string
Interpolate(opt) == IF opt = <<>> THEN "undefined" ELSE opt[1]

RECURSIVE CharLen(_)
\* length in characters of the text "/s1/s2/.../sn"
CharLen(segs) ==
    IF segs = <<>> THEN 0 ELSE 1 + Len(Head(segs)) + CharLen(Tail(segs))

Drop(segs, k) == SubSeq(segs, k + 1, Len(segs))
Take(segs, k) == SubSeq(segs, 1, k)

IsPrefixOf(p, s) == Len(p) <= Len(s) /\ Take(s, Len(p)) = p

Text(segs) == [head |-> "", segs |-> segs]

\* what is left of a segment that substr or a replace cut through: some
\* non-empty text without "/"
Ragged == "*"

\* String.prototype.substr(n) on the text "/s1/.../sn"
Substr(segs, n) ==
    IF n >= CharLen(segs) THEN Text(<<>>)
    ELSE IF \E k \in 0..Len(segs) : CharLen(Take(segs, k)) = n
         THEN Text(Drop(segs, CHOOSE k \in 0..Len(segs) : CharLen(Take(segs, k)) = n))
         ELSE LET k == CHOOSE k \in 1..Len(segs) :
                           CharLen(Take(segs, k - 1)) < n /\ n < CharLen(Take(segs, k))
              IN [head |-> Ragged, segs |-> Drop(segs, k)]

-----------------------------------------------------------------------------
(* URL Matcher *)

\* url.host.endsWith(".atlassian.net"): url.host carries the port when there is one
EndsWithAtlassianNet(host) ==
    /\ host.port = <<>>
    /\ Len(host.labels) >= 3
    /\ host.labels[Len(host.labels) - 1] = "atlassian"
    /\ host.labels[Len(host.labels)] = "net"

isJiraPage(url, document) ==
    IF EndsWithAtlassianNet(url.host) THEN TRUE
    ELSE IF document.body.id = "jira" THEN TRUE
    ELSE FALSE

\* "RapidBoard.jspa" of the pattern, where "." is any character, "/" included
RapidBoardDot(rest) ==
    \/ Len(rest) = 1 /\ rest[1] \in {"RapidBoard.jspa", "RapidBoardXjspa"}
    \/ Len(rest) = 2 /\ rest[1] = "RapidBoard" /\ rest[2] = "jspa"

\* (browse/[^/]+|projects/[^/]+/issues/[^/]+|projects/[^/]+/boards/.*|secure/RapidBoard.jspa)$
TrailingShape(s) ==
    \/ Len(s) = 2 /\ s[1] = "browse" /\ s[2] # ""
    \/ Len(s) = 4 /\ s[1] = "projects" /\ s[2] # "" /\ s[3] = "issues" /\ s[4] # ""
    \/ Len(s) >= 4 /\ s[1] = "projects" /\ s[2] # "" /\ s[3] = "boards"
    \/ Len(s) >= 2 /\ s[1] = "secure" /\ RapidBoardDot(Tail(s))

\* the RegExp pathSuffixes: TRUE iff the text "/s1/.../sn" is matched from its
\* first character to its end
pathSuffixes(s) ==
    \/ TrailingShape(s)
    \/ /\ Len(s) >= 2 /\ s[1] = "jira" /\ s[2] = "software"
       /\ \/ TrailingShape(Drop(s, 2))
          \/ Len(s) >= 3 /\ Len(s[3]) = 1 /\ TrailingShape(Drop(s, 3))

\* a variant that keeps RegExp.prototype.exec's statefulness: the search starts
\* at lastIndex and a match leaves lastIndex at its end
StatefulReplace(pathname, li) ==
    LET starts == {k \in 0..(Len(pathname) - 1) :
                       CharLen(Take(pathname, k)) >= li /\ pathSuffixes(Drop(pathname, k))}
    IN IF starts = {}
       THEN [result |-> pathname, lastIndex |-> 0]
       ELSE [result |-> Take(pathname, CHOOSE k \in starts : \A j \in starts : k <= j),
             lastIndex |-> CharLen(pathname)]

\* a variant that removes the shortest matching suffix instead of the longest
ShortestReplace(pathname, li) ==
    LET starts == {k \in 0..(Len(pathname) - 1) : pathSuffixes(Drop(pathname, k))}
    IN IF starts = {}
       THEN [result |-> pathname, lastIndex |-> 0]
       ELSE [result |-> Take(pathname, CHOOSE k \in starts : \A j \in starts : k >= j),
             lastIndex |-> 0]

\* pathname.replace(pathSuffixes, ""), pathSuffixes having the "g" flag: replace
\* sets lastIndex to 0, removes the leftmost match (every match runs to the end
\* of the text, so there is at most one), and the failing search that ends the
\* loop leaves lastIndex at 0.  li is lastIndex on entry.
RegExpReplace(pathname, li) ==
    LET starts == {k \in 0..(Len(pathname) - 1) : pathSuffixes(Drop(pathname, k))}
    IN IF starts = {}
       THEN [result |-> pathname, lastIndex |-> 0]
       ELSE [result |-> Take(pathname, CHOOSE k \in starts : \A j \in starts : k <= j),
             lastIndex |-> 0]

getPathPrefix(url, li) == RegExpReplace(url.pathname, li)

\* .replace(/^\/jira\/software/, ""): the pattern has no boundary after "software"
SoftwarePrefixed == {"software", "softwares"}

StripProduct(t) ==
    IF t.head = "" /\ Len(t.segs) >= 2 /\ t.segs[1] = "jira" /\ t.segs[2] \in SoftwarePrefixed
    THEN IF t.segs[2] = "software"
         THEN Text(Drop(t.segs, 2))
         ELSE [head |-> Ragged, segs |-> Drop(t.segs, 2)]
    ELSE t

Lit(s) == [kind |-> "lit", name |-> s]
Param(s) == [kind |-> "param", name |-> s]

\* the route templates "/projects/:project/issues/:id" and "/browse/:id"
Patterns ==
    << <<Lit("projects"), Param("project"), Lit("issues"), Param("id")>>,
       <<Lit("browse"), Param("id")>> >>

\* micro-match's match(pattern, path): the captured parameters when the whole
\* path matches the template segment by segment, the empty object otherwise
match(pattern, t) ==
    IF /\ t.head = ""
       /\ Len(t.segs) = Len(pattern)
       /\ \A k \in 1..Len(pattern) :
            IF pattern[k].kind = "lit" THEN t.segs[k] = pattern[k].name
            ELSE t.segs[k] # ""
    THEN [n \in {pattern[k].name : k \in {j \in 1..Len(pattern) : pattern[j].kind = "param"}}
            |-> t.segs[CHOOSE k \in 1..Len(pattern) :
                           pattern[k].kind = "param" /\ pattern[k].name = n]]
    ELSE <<>>

\* property access m.id
Prop(m, name) == IF name \in DOMAIN m THEN Some(m[name]) ELSE Undefined

\* Array.prototype.find(Boolean)
FindTruthy(opts) ==
    IF \E k \in 1..Len(opts) : IsTruthy(opts[k])
    THEN opts[CHOOSE k \in 1..Len(opts) :
                  IsTruthy(opts[k]) /\ \A j \in 1..(k - 1) : ~IsTruthy(opts[j])]
    ELSE Undefined

\* a variant that matches the templates against the whole pathname, as if the
\* instance were never hosted on a subpath
PathIdOfWholePath(url, prefix) ==
    LET path == StripProduct(Text(url.pathname))
    IN FindTruthy([k \in 1..Len(Patterns) |-> Prop(match(Patterns[k], path), "id")])

PathId(url, prefix) ==
    LET path == StripProduct(Substr(url.pathname, CharLen(prefix)))
    IN FindTruthy([k \in 1..Len(Patterns) |-> Prop(match(Patterns[k], path), "id")])

\* a variant that looks at the path first and at the query parameter last
PathFirstIssueId(url, prefix) ==
    IF IsTruthy(PathId(url, prefix)) THEN PathId(url, prefix)
    ELSE IF Len(url.query) > 0 THEN Some(Head(url.query))
    ELSE Undefined

\* a variant that tests the parameter's value instead of its presence
TruthyParamIssueId(url, prefix) ==
    IF Len(url.query) > 0 /\ Head(url.query) # "" THEN Some(Head(url.query))
    ELSE PathId(url, prefix)

getSelectedIssueId(url, prefix) ==
    IF Len(url.query) > 0 THEN Some(Head(url.query))
    ELSE PathId(url, prefix)

-----------------------------------------------------------------------------
(* Ticket Mapper *)

\* String.prototype.toLowerCase on the issue-type names of the model
ToLowerCase(s) ==
    CASE s = "Bug" -> "bug"
      [] s = "Story" -> "story"
      [] OTHER -> s

\* toMarkdown(fromADF(doc), { extensions: [gfmToMarkdown()] })
AdfToMarkdown(doc) ==
    CASE doc = "adf:paragraph" -> "Some text.\n"
      [] doc = "adf:table" -> "| a | b |\n| - | - |\n"
      [] OTHER -> ""

Threw(e) == [threw |-> TRUE, error |-> e]
Returned(v) == [threw |-> FALSE, value |-> v]

\* info is the parsed JSON body: <<>> is null, <<r>> the object r, whose
\* members are optional in turn.  Destructuring null or undefined, and reading a
\* member of undefined, throw a TypeError; a missing member reads as undefined.
extractTicketInfo(info, host) ==
    IF info = <<>> THEN Threw("TypeError")                   \* const { key, fields } = null
    ELSE LET id == info[1].key
             fieldsOpt == info[1].fields
         IN IF fieldsOpt = <<>> THEN Threw("TypeError")      \* const { issuetype, summary } = undefined
            ELSE LET fields == fieldsOpt[1]
                     issuetype == fields.issuetype
                     title == fields.summary
                 IN IF issuetype = <<>> THEN Threw("TypeError")             \* issuetype.name
                    ELSE IF issuetype[1].name = <<>> THEN Threw("TypeError") \* undefined.toLowerCase()
                    ELSE Returned(
                           [type |-> Some(ToLowerCase(issuetype[1].name[1])),
                            id |-> id,
                            title |-> title,
                            description |-> IF IsTruthy(fields.description)
                                            THEN Some(AdfToMarkdown(fields.description[1]))
                                            ELSE Undefined,
                            url |-> [scheme |-> "https", host |-> host,
                                     pathname |-> <<"browse", Interpolate(id)>>]])

-----------------------------------------------------------------------------
(* Scan Orchestrator *)

NoHost == [labels |-> <<>>, port |-> <<>>]
NoUrl == [scheme |-> "", host |-> NoHost, pathname |-> <<>>, query |-> <<>>]
NoDocument == [body |-> [id |-> ""]]
NoResponse == [kind |-> "none"]

Idle ==
    [pc |-> "idle", url |-> NoUrl, document |-> NoDocument, prefix |-> <<>>,
     id |-> Undefined, gets |-> <<>>, response |-> NoResponse,
     result |-> <<>>, error |-> ""]

\* client(`https://${url.host}${prefix}/rest/api/3`)
RestBase(url, prefix) ==
    [scheme |-> "https", host |-> url.host, pathname |-> prefix \o <<"rest", "api", "3">>]

\* jira.get(`issue/${id}`): the client appends the path to its base URL
IssueRequest(base, id) ==
    [base EXCEPT !.pathname = @ \o <<"issue", Interpolate(id)>>]

\* a variant of scan without the applicability test
ScanUngated(url, document, li) ==
    LET r == getPathPrefix(url, li)
        id == getSelectedIssueId(url, r.result)
        c == [Idle EXCEPT !.url = url, !.document = document]
    IN [lastIndex |-> r.lastIndex,
        call |-> IF ~IsTruthy(id)
                 THEN [c EXCEPT !.pc = "resolved", !.prefix = r.result, !.id = id]
                 ELSE [c EXCEPT !.pc = "awaiting", !.prefix = r.result, !.id = id,
                                !.gets = <<IssueRequest(RestBase(url, r.result), id)>>]]

\* scan up to its await: the call either returns [] or has issued its GET and
\* is suspended.  li is pathSuffixes.lastIndex on entry.
scan(url, document, li) ==
    LET c == [Idle EXCEPT !.url = url, !.document = document]
    IN IF ~isJiraPage(url, document)
       THEN [lastIndex |-> li, call |-> [c EXCEPT !.pc = "resolved"]]
       ELSE LET r == getPathPrefix(url, li)
                prefix == r.result
                id == getSelectedIssueId(url, prefix)
            IN [lastIndex |-> r.lastIndex,
                call |-> IF ~IsTruthy(id)
                         THEN [c EXCEPT !.pc = "resolved", !.prefix = prefix, !.id = id]
                         ELSE [c EXCEPT !.pc = "awaiting", !.prefix = prefix, !.id = id,
                                        !.gets = <<IssueRequest(RestBase(url, prefix), id)>>]]

\* a variant that answers a failed GET by issuing it once more
RetryOnRejected(c, failure) ==
    [c EXCEPT !.response = failure, !.gets = @ \o <<c.gets[1]>>]

\* the awaited GET rejects (network error, non-2xx status, unparsable body):
\* the exception leaves scan, whose promise rejects with it
scanOnRejected(c, failure) ==
    [c EXCEPT !.pc = "rejected", !.response = failure, !.error = failure.error]

\* the awaited GET fulfils with the parsed body: map it and return [ticket]
scanOnFulfilled(c, response) ==
    LET t == extractTicketInfo(response.body, c.url.host)
    IN IF t.threw
       THEN [c EXCEPT !.pc = "rejected", !.response = response, !.error = t.error]
       ELSE [c EXCEPT !.pc = "resolved", !.response = response, !.result = <<t.value>>]

-----------------------------------------------------------------------------
(* Inputs *)

Acme == [labels |-> <<"acme", "atlassian", "net">>, port |-> <<>>]
AcmePort == [labels |-> <<"acme", "atlassian", "net">>, port |-> <<"8443">>]
Apex == [labels |-> <<"atlassian", "net">>, port |-> <<>>]
Internal == [labels |-> <<"tracker", "internal", "example">>, port |-> <<>>]

Documents == {[body |-> [id |-> i]] : i \in {"jira", "page"}}

Url(scheme, host, pathname, query) ==
    [scheme |-> scheme, host |-> host, pathname |-> pathname, query |-> query]

\* URL matcher harness
PrefixSegs == {"jira", "software", "c", "projects", "boards", "browse"}

Prefixes == UNION {[1..k -> PrefixSegs] : k \in 0..MaxPrefixLen}

Tails ==
    { <<>>,
      <<"browse", "K2">>,
      <<"browse">>,
      <<"browse", "K2", "">>,
      <<"projects", "TT", "issues", "K2">>,
      <<"projects", "TT", "boards", "7">>,
      <<"projects", "TT", "boards", "7", "backlog">>,
      <<"secure", "RapidBoard.jspa">>,
      <<"secure", "RapidBoard", "jspa">>,
      <<"secure", "Dashboard.jspa">>,
      <<"softwares", "browse", "K2">> }

Pathname(segs) == IF segs = <<>> THEN <<"">> ELSE segs

Pathnames == {Pathname(p \o t) : p \in Prefixes, t \in Tails}

Queries == {<<>>, <<"">>, <<"K1">>, <<"K1", "K2">>}

MatcherUrls == {Url("https", Acme, p, q) : p \in Pathnames, q \in Queries}

\* prefix arguments other than getPathPrefix(url): the default "", the whole
\* pathname, and a prefix that cuts through a segment
PrefixArgs(url) == {<<>>, url.pathname, <<"ji">>}

\* one scan call
ScanPaths ==
    { <<"">>,
      <<"dashboard">>,
      <<"browse", "K2">>,
      <<"jira", "browse", "OPS-3">>,
      <<"projects", "TT", "issues", "K2">>,
      <<"jira", "software", "c", "projects", "TT", "boards", "7">>,
      <<"secure", "RapidBoard.jspa">> }

ScanUrls ==
    {Url(s, h, p, q) : s \in {"https", "http"}, h \in {Acme, AcmePort, Apex, Internal},
                       p \in ScanPaths, q \in {<<>>, <<"">>, <<"K1">>}}

Failures ==
    {[kind |-> "error", error |-> e] : e \in {"NetworkError", "HTTPError", "SyntaxError"}}

IssueTypes == {<<>>} \cup {<<[name |-> n]>> : n \in {<<>>, <<"Bug">>}}

FieldSets ==
    {<<>>} \cup
    {<<[issuetype |-> t, summary |-> s, description |-> d]>> :
        t \in IssueTypes, s \in {<<>>, <<"Login fails">>}, d \in {<<>>, <<"adf:table">>}}

Bodies ==
    {[kind |-> "json", body |-> b] :
        b \in {<<>>} \cup {<<[key |-> k, fields |-> f]>> : k \in {<<>>, <<"K2">>}, f \in FieldSets}}

\* concurrent scan calls
ConcUrls ==
    { Url("https", Acme, <<"browse", "K2">>, <<>>),
      Url("https", Internal, <<"jira", "browse", "OPS-3">>, <<>>),
      Url("https", Acme, <<"secure", "RapidBoard.jspa">>, <<"K1">>),
      Url("https", Internal, <<"dashboard">>, <<>>) }

ConcDocuments == {[body |-> [id |-> "jira"]]}

ConcFailures == {[kind |-> "error", error |-> "HTTPError"]}

ConcBodies ==
    {[kind |-> "json",
      body |-> <<[key |-> <<k>>,
                  fields |-> <<[issuetype |-> <<[name |-> <<"Bug">>]>>,
                                summary |-> <<"Login fails">>,
                                description |-> <<>>]>>]>>] : k \in {"K2", "OPS-3"}}

-----------------------------------------------------------------------------
(* Actions *)

\* scan(url, document) is called and runs to its first await or to its return
Scan(i, urls, documents) ==
    /\ calls[i].pc = "idle"
    /\ \E url \in urls, document \in documents :
         LET s == scan(url, document, lastIndex)
         IN /\ calls' = [calls EXCEPT ![i] = s.call]
            /\ lastIndex' = s.lastIndex
    /\ UNCHANGED <<u, phase, pfx, arg, ident>>

\* the GET of call i fails
FetchRejects(i, failures) ==
    /\ calls[i].pc = "awaiting"
    /\ \E failure \in failures :
         calls' = [calls EXCEPT ![i] = scanOnRejected(calls[i], failure)]
    /\ UNCHANGED <<lastIndex, u, phase, pfx, arg, ident>>

\* the GET of call i returns a JSON body
FetchFulfils(i, bodies) ==
    /\ calls[i].pc = "awaiting"
    /\ \E response \in bodies :
         calls' = [calls EXCEPT ![i] = scanOnFulfilled(calls[i], response)]
    /\ UNCHANGED <<lastIndex, u, phase, pfx, arg, ident>>

\* harness: prefix = getPathPrefix(url)
PrefixStep ==
    /\ phase = "url"
    /\ LET r == getPathPrefix(u, lastIndex)
       IN /\ pfx' = r.result
          /\ lastIndex' = r.lastIndex
    /\ phase' = "prefix"
    /\ UNCHANGED <<calls, u, arg, ident>>

\* harness: id = getSelectedIssueId(url, prefix), as scan calls it
IdStep ==
    /\ phase = "prefix"
    /\ arg' = pfx
    /\ ident' = getSelectedIssueId(u, pfx)
    /\ phase' = "id"
    /\ UNCHANGED <<lastIndex, calls, u, pfx>>

\* harness: getSelectedIssueId(url, a) for another prefix argument
IdStepWith ==
    /\ phase = "prefix"
    /\ \E a \in PrefixArgs(u) \ {pfx} :
         /\ arg' = a
         /\ ident' = getSelectedIssueId(u, a)
    /\ phase' = "id"
    /\ UNCHANGED <<lastIndex, calls, u, pfx>>

-----------------------------------------------------------------------------
(* Specifications *)

InitScan(n) ==
    /\ lastIndex = 0
    /\ calls = [i \in 1..n |-> Idle]
    /\ u = NoUrl
    /\ phase = "off"
    /\ pfx = <<>>
    /\ arg = <<>>
    /\ ident = Undefined

\* one scan call, any page, any response
Init == InitScan(1)

ScanCalled == \E i \in DOMAIN calls : Scan(i, ScanUrls, Documents)

GetRejected == \E i \in DOMAIN calls : FetchRejects(i, Failures)

GetFulfilled == \E i \in DOMAIN calls : FetchFulfils(i, Bodies)

Next == ScanCalled \/ GetRejected \/ GetFulfilled

Spec == Init /\ [][Next]_vars

\* NumCalls scan calls interleaved at their await
InitConc == InitScan(NumCalls)

ConcScanCalled == \E i \in DOMAIN calls : Scan(i, ConcUrls, ConcDocuments)

ConcGetRejected == \E i \in DOMAIN calls : FetchRejects(i, ConcFailures)

ConcGetFulfilled == \E i \in DOMAIN calls : FetchFulfils(i, ConcBodies)

NextConc == ConcScanCalled \/ ConcGetRejected \/ ConcGetFulfilled

SpecConc == InitConc /\ [][NextConc]_vars

\* the URL matcher's functions on every URL of MatcherUrls
InitUrl ==
    /\ lastIndex = 0
    /\ calls = <<>>
    /\ u \in MatcherUrls
    /\ phase = "url"
    /\ pfx = <<>>
    /\ arg = <<>>
    /\ ident = Undefined

NextUrl == PrefixStep \/ IdStep \/ IdStepWith

SpecUrl == InitUrl /\ [][NextUrl]_vars

-----------------------------------------------------------------------------
(* Properties *)

Applicable(c) ==
    /\ isJiraPage(c.url, c.document)
    /\ IsTruthy(getSelectedIssueId(c.url, getPathPrefix(c.url, 0).result))

Started(c) == c.pc # "idle"

\* C1: a scan call whose page is not a Jira page, or whose URL yields no
\* (truthy) identifier, has resolved with the empty list, is not rejected and
\* has issued no GET; a call that has issued a GET passed the applicability
\* test and extracted a non-empty identifier.
C1_NotApplicableIsEmptyWithoutGet ==
    \A i \in DOMAIN calls :
        LET c == calls[i]
        IN Started(c) =>
             /\ ~Applicable(c) => c.pc = "resolved" /\ c.result = <<>> /\ c.gets = <<>>
             /\ c.gets # <<>> => Applicable(c)

\* a call on a page that is no Jira page, whose URL does carry an identifier
C1_Witness ==
    \E i \in DOMAIN calls :
        LET c == calls[i]
        IN /\ Started(c)
           /\ ~isJiraPage(c.url, c.document)
           /\ IsTruthy(getSelectedIssueId(c.url, getPathPrefix(c.url, 0).result))
           /\ c.pc = "resolved" /\ c.result = <<>> /\ c.gets = <<>>

\* C2: a call whose GET failed is rejected with that failure, has issued
\* exactly one GET and holds no list; and a rejected call stays as it is.
C2_FailedGetRejectsWithoutRetry ==
    /\ [](\A i \in DOMAIN calls :
            LET c == calls[i]
            IN c.response.kind = "error" =>
                 /\ c.pc = "rejected"
                 /\ c.error = c.response.error
                 /\ Len(c.gets) = 1
                 /\ c.result = <<>>)
    /\ [][\A i \in DOMAIN calls : calls[i].pc = "rejected" => calls'[i] = calls[i]]_vars

\* a call rejected by a non-2xx status
C2_Witness ==
    \E i \in DOMAIN calls :
        /\ calls[i].pc = "rejected"
        /\ calls[i].response = [kind |-> "error", error |-> "HTTPError"]
        /\ calls[i].error = "HTTPError"
        /\ Len(calls[i].gets) = 1

Populated(t, host) ==
    /\ t.type # Undefined
    /\ t.id # Undefined
    /\ t.title # Undefined
    /\ t.url = [scheme |-> "https", host |-> host, pathname |-> <<"browse", t.id[1]>>]

\* C3: whatever JSON body the GET returns, a call that has resolved holds at
\* most one ticket, and a ticket it holds has type, id, title and url defined.
C3_NoPartialTicket ==
    \A i \in DOMAIN calls :
        LET c == calls[i]
        IN c.pc = "resolved" =>
             /\ Len(c.result) <= 1
             /\ \A k \in 1..Len(c.result) : Populated(c.result[k], c.url.host)

\* C4: for a URL with a selectedIssue parameter, getSelectedIssueId returns
\* that parameter's value, whatever the path and whatever the prefix argument.
C4_QueryParameterWins ==
    (phase = "id" /\ Len(u.query) > 0) => ident = Some(Head(u.query))

\* the path names K2, the parameter K1, and K1 is returned
C4_Witness ==
    /\ phase = "id"
    /\ arg = pfx
    /\ u.pathname = <<"jira", "browse", "K2">>
    /\ u.query = <<"K1">>
    /\ ident = <<"K1">>

EmptyParamOnBrowse(c) ==
    /\ Started(c)
    /\ isJiraPage(c.url, c.document)
    /\ c.url.query = <<"">>
    /\ Len(c.url.pathname) = 2
    /\ c.url.pathname[1] = "browse"
    /\ c.url.pathname[2] # ""

\* C5 as claimed: on <host>/browse/<KEY>?selectedIssue= the empty parameter is
\* passed over, the identifier is <KEY> and scan fetches that ticket.
C5_EmptyParamFallsThrough ==
    \A i \in DOMAIN calls :
        EmptyParamOnBrowse(calls[i]) =>
            /\ calls[i].id = Some(calls[i].url.pathname[2])
            /\ Len(calls[i].gets) = 1

\* C5 as amended: a selectedIssue parameter that is present with the empty
\* string as its value short-circuits like any other: the identifier is the
\* empty string whatever the path, and scan resolves with [] without a GET.
C5_EmptyParamShortCircuits ==
    \A i \in DOMAIN calls :
        LET c == calls[i]
        IN (Started(c) /\ isJiraPage(c.url, c.document)
                /\ Len(c.url.query) > 0 /\ Head(c.url.query) = "") =>
             /\ c.id = Some("")
             /\ c.pc = "resolved"
             /\ c.result = <<>>
             /\ c.gets = <<>>

C5_Witness ==
    \E i \in DOMAIN calls :
        /\ EmptyParamOnBrowse(calls[i])
        /\ calls[i].id = Some("")
        /\ calls[i].pc = "resolved"

\* the harness has computed getSelectedIssueId(u, getPathPrefix(u))
Identified == phase = "id" /\ arg = pfx

Lead(pathname, n) == Take(pathname, Len(pathname) - n)

BrowsePath(pathname) ==
    /\ Len(pathname) >= 2
    /\ pathname[Len(pathname) - 1] = "browse"
    /\ pathname[Len(pathname)] # ""

\* C6 as claimed: without a selectedIssue parameter, on a path P + /browse/<KEY>
\* the prefix is P and the identifier <KEY>, for every P.
C6_BrowseAnyPrefix ==
    (Identified /\ u.query = <<>> /\ BrowsePath(u.pathname)) =>
        /\ pfx = Lead(u.pathname, 2)
        /\ ident = Some(u.pathname[Len(u.pathname)])

\* P ends with the product segment /jira/software, with or without a
\* one-character segment after it
EndsWithProduct(p) ==
    \/ Len(p) >= 2 /\ p[Len(p) - 1] = "jira" /\ p[Len(p)] = "software"
    \/ Len(p) >= 3 /\ p[Len(p) - 2] = "jira" /\ p[Len(p) - 1] = "software"
                   /\ Len(p[Len(p)]) = 1

\* P holds a run /projects/<p>/boards
HasBoardsRun(p) ==
    \E k \in 1..(Len(p) - 2) :
        p[k] = "projects" /\ p[k + 1] # "" /\ p[k + 2] = "boards"

\* C6 as amended: without a selectedIssue parameter, on a path P + /browse/<KEY>
\* the prefix is P and the identifier <KEY>, for every P that neither ends with
\* the product segment (/jira/software or /jira/software/<one character>) nor
\* holds a run /projects/<p>/boards.
C6_BrowsePrefix ==
    (Identified /\ u.query = <<>> /\ BrowsePath(u.pathname)
        /\ ~EndsWithProduct(Lead(u.pathname, 2))
        /\ ~HasBoardsRun(Lead(u.pathname, 2))) =>
        /\ pfx = Lead(u.pathname, 2)
        /\ ident = Some(u.pathname[Len(u.pathname)])

\* P holds the product segment and a segment named browse
C6_Witness ==
    /\ Identified
    /\ u.query = <<>>
    /\ u.pathname = <<"jira", "software", "browse", "browse", "K2">>
    /\ pfx = <<"jira", "software", "browse">>
    /\ ident = <<"K2">>

IssuesPath(pathname) ==
    /\ Len(pathname) >= 4
    /\ pathname[Len(pathname) - 3] = "projects"
    /\ pathname[Len(pathname) - 2] # ""
    /\ pathname[Len(pathname) - 1] = "issues"
    /\ pathname[Len(pathname)] # ""

\* a hosting prefix followed or not by the product segment: no segment of it
\* is one of the route words
MountAndProduct(p) ==
    \A k \in 1..Len(p) : p[k] \notin {"projects", "boards", "issues", "browse", "secure", ""}

\* C7: without a selectedIssue parameter, on a path that ends in
\* /projects/<P>/issues/<KEY> - at the root, under a hosting prefix, after the
\* product segment with or without its one-character sub-segment - the
\* identifier is <KEY>.
C7_IssuesPathYieldsKey ==
    (Identified /\ u.query = <<>> /\ IssuesPath(u.pathname)
        /\ MountAndProduct(Lead(u.pathname, 4))) =>
        ident = Some(u.pathname[Len(u.pathname)])

\* C8: a call that has issued a GET has issued exactly one, to
\* {scheme}://{host}{prefix}/rest/api/3/issue/{id} with the page's scheme and
\* host, prefix = getPathPrefix(url) and id the extracted identifier.
C8_GetTarget ==
    \A i \in DOMAIN calls :
        LET c == calls[i]
        IN c.gets # <<>> =>
             /\ Len(c.gets) = 1
             /\ c.gets[1] =
                  [scheme |-> c.url.scheme,
                   host |-> c.url.host,
                   pathname |-> getPathPrefix(c.url, 0).result
                                  \o <<"rest", "api", "3", "issue">>
                                  \o getSelectedIssueId(c.url, getPathPrefix(c.url, 0).result)]

\* the call as it would stand had it run alone from a fresh module
Alone(c) ==
    LET first == scan(c.url, c.document, 0).call
    IN IF c.response = NoResponse THEN first
       ELSE IF c.response.kind = "error" THEN scanOnRejected(first, c.response)
       ELSE scanOnFulfilled(first, c.response)

\* C9: with scan calls interleaved at their await, every call stands as it
\* would had it run alone on its own url, document and response, and
\* pathSuffixes.lastIndex is 0 between steps.
C9_CallsAreIndependent ==
    /\ lastIndex = 0
    /\ \A i \in DOMAIN calls : Started(calls[i]) => calls[i] = Alone(calls[i])

\* two calls on different pages, the second resolved with its ticket while
\* the first is still awaiting its GET
C9_Witness ==
    /\ calls[1].pc = "awaiting"
    /\ calls[1].url.pathname = <<"jira", "browse", "OPS-3">>
    /\ calls[2].pc = "resolved"
    /\ calls[2].url.pathname = <<"browse", "K2">>
    /\ Len(calls[2].result) = 1

NoSuffixMatches(pathname) ==
    \A k \in 0..(Len(pathname) - 1) : ~pathSuffixes(Drop(pathname, k))

LongestSuffixRemoved ==
    /\ IsPrefixOf(pfx, u.pathname)
    /\ pfx # u.pathname => pathSuffixes(Drop(u.pathname, Len(pfx)))
    /\ \A k \in 0..(Len(u.pathname) - 1) : pathSuffixes(Drop(u.pathname, k)) => Len(pfx) <= k

\* C10 as claimed: getPathPrefix removes the longest suffix that pathSuffixes
\* matches, the result is a prefix of the pathname, and when no suffix
\* matches the result is the pathname and getSelectedIssueId returns none
\* (read generously: nothing that scan would take for an identifier).
C10_NoSuffixNoIdentifier ==
    Identified =>
        /\ LongestSuffixRemoved
        /\ NoSuffixMatches(u.pathname) => pfx = u.pathname /\ ~IsTruthy(ident)

\* C10 as amended: ... when no suffix matches the result is the pathname, and
\* getSelectedIssueId returns none unless the URL carries a selectedIssue
\* parameter, whose value it returns.
C10_LongestSuffixRemoved ==
    Identified =>
        /\ LongestSuffixRemoved
        /\ NoSuffixMatches(u.pathname) =>
             /\ pfx = u.pathname
             /\ ident = IF u.query = <<>> THEN Undefined ELSE Some(Head(u.query))

\* two suffixes match and the longer one is removed
C10_Witness ==
    /\ Identified
    /\ u.pathname = <<"projects", "c", "boards", "browse", "K2">>
    /\ pathSuffixes(<<"browse", "K2">>)
    /\ pfx = <<>>

=============================================================================
